---- MODULE Spec2Model ----
(***************************************************************************)
(* Model of src/main.py: the employee directory command-line tool.         *)
(*                                                                         *)
(* The state is the database file (the employees table, its rows, the      *)
(* index), the connection of the running invocation with its uncommitted   *)
(* transaction, and the position of main() and of the loops of             *)
(* generate_random_employees.  One behaviour is a sequence of invocations  *)
(* of the program against the same database file.                          *)
(*                                                                         *)
(* Text values that the program orders, matches by prefix, formats or      *)
(* parses (full_name, birth_date) are sequences of one-character strings.  *)
(***************************************************************************)
EXTENDS Integers, Sequences, FiniteSets

(***************************************************************************)
(* Bounds of the model.                                                    *)
(*   BatchSize  stands for the 10,000 of src/main.py:110, scaled down;     *)
(*   FCount     stands for the 100 of src/main.py:120, scaled down;        *)
(*   MaxCount   bounds the count argument of generate_random_employees;    *)
(*   MaxRows    bounds the number of stored rows;                          *)
(*   MaxAdds    bounds the number of mode-2 inserts in one behaviour.      *)
(***************************************************************************)
BatchSize == 2

FCount == 2

MaxCount == 5

MaxRows == 7

MaxAdds == 1

(***************************************************************************)
(* Characters and text.                                                    *)
(***************************************************************************)

\* The characters the model uses, in increasing byte order (ASCII).
Ascii ==
    <<" ", "-", ".", "0", "1", "2", "3", "4", "5", "6", "7", "8", "9",
      "A", "B", "C", "D", "E", "F", "G", "H", "I", "J", "K", "L", "M",
      "N", "O", "P", "Q", "R", "S", "T", "U", "V", "W", "X", "Y", "Z",
      "a", "b", "c", "d", "e", "f", "g", "h", "i", "j", "k", "l", "m",
      "n", "o", "p", "q", "r", "s", "t", "u", "v", "w", "x", "y", "z">>

Ord(c) == CHOOSE k \in 1..Len(Ascii) : Ascii[k] = c

DigitChars == <<"0", "1", "2", "3", "4", "5", "6", "7", "8", "9">>

IsDigit(c) == \E k \in 1..10 : DigitChars[k] = c

DigitValue(c) == (CHOOSE k \in 1..10 : DigitChars[k] = c) - 1

SetMin(S) == CHOOSE x \in S : \A y \in S : x <= y

\* Byte-wise comparison of two texts (SQLite's BINARY collation, which
\* ORDER BY full_name uses): a <= b.
TextLeq(a, b) ==
    LET n == IF Len(a) < Len(b) THEN Len(a) ELSE Len(b)
        diff == {k \in 1..n : a[k] # b[k]}
    IN  IF diff = {} THEN Len(a) <= Len(b)
        ELSE Ord(a[SetMin(diff)]) < Ord(b[SetMin(diff)])

\* ASCII upper-casing of one character, as SQLite's LIKE folds case.
Upper(c) ==
    IF Ord(c) >= Ord("a") /\ Ord(c) <= Ord("z")
    THEN Ascii[Ord(c) - Ord("a") + Ord("A")]
    ELSE c

\* full_name LIKE 'F%' (PRAGMA case_sensitive_like is off by default: the
\* pattern's letter matches both cases).
LikeF(name) == Len(name) >= 1 /\ Upper(name[1]) = Upper("F")

\* f"{last_name} {first_name} {middle_name}"
ComposeName(last, first, middle) == last \o <<" ">> \o first \o <<" ">> \o middle

\* The text before the first space of a name (all of it when it has none).
LastNameToken(name) ==
    LET sp == {k \in 1..Len(name) : name[k] = " "}
    IN  IF sp = {} THEN name ELSE SubSeq(name, 1, SetMin(sp) - 1)

(***************************************************************************)
(* Dates: formatting (f"{year}-{month:02d}-{day:02d}") and parsing         *)
(* (datetime.strptime(s, "%Y-%m-%d").date()).                              *)
(***************************************************************************)

RECURSIVE Decimal(_)
\* str(n) of a natural number.
Decimal(n) ==
    IF n < 10 THEN <<DigitChars[n + 1]>>
    ELSE Decimal(n \div 10) \o <<DigitChars[(n % 10) + 1]>>

\* f"{n:02d}"
Pad2(n) == IF n < 10 THEN <<"0">> \o Decimal(n) ELSE Decimal(n)

FormatDate(year, month, day) ==
    Decimal(year) \o <<"-">> \o Pad2(month) \o <<"-">> \o Pad2(day)

RECURSIVE Number(_)
\* int(s) of a text of digits.
Number(s) ==
    IF Len(s) = 0 THEN 0
    ELSE 10 * Number(SubSeq(s, 1, Len(s) - 1)) + DigitValue(s[Len(s)])

IsLeap(y) == (y % 4 = 0) /\ ((y % 100 # 0) \/ (y % 400 = 0))

DaysInMonth(y, m) ==
    IF m = 2 THEN (IF IsLeap(y) THEN 29 ELSE 28)
    ELSE IF m \in {4, 6, 9, 11} THEN 30 ELSE 31

\* %m: 1[0-2] | 0[1-9] | [1-9]
MonthToken(t) ==
    \/ Len(t) = 2 /\ t[1] = "1" /\ t[2] \in {"0", "1", "2"}
    \/ Len(t) = 2 /\ t[1] = "0" /\ IsDigit(t[2]) /\ t[2] # "0"
    \/ Len(t) = 1 /\ IsDigit(t[1]) /\ t[1] # "0"

\* %d: 3[01] | [12]\d | 0[1-9] | [1-9] | " "[1-9]
DayToken(t) ==
    \/ Len(t) = 2 /\ t[1] = "3" /\ t[2] \in {"0", "1"}
    \/ Len(t) = 2 /\ t[1] \in {"1", "2"} /\ IsDigit(t[2])
    \/ Len(t) = 2 /\ t[1] \in {"0", " "} /\ IsDigit(t[2]) /\ t[2] # "0"
    \/ Len(t) = 1 /\ IsDigit(t[1]) /\ t[1] # "0"

\* The value of a %d token (a leading space or zero does not count).
DayValue(t) == IF t[1] = " " THEN DigitValue(t[2]) ELSE Number(t)

NoDate == <<0, 0, 0>>

\* strptime(s, "%Y-%m-%d").date(): <<year, month, day>>, or NoDate where
\* strptime raises ValueError (no match, unconverted data, no such day).
ParseDate(s) ==
    IF \/ Len(s) < 8
       \/ \E k \in 1..4 : ~IsDigit(s[k])
       \/ s[5] # "-"
    THEN NoDate
    ELSE
    LET rest   == SubSeq(s, 6, Len(s))
        dashes == {k \in 1..Len(rest) : rest[k] = "-"}
    IN  IF dashes = {} THEN NoDate
        ELSE
        LET d  == SetMin(dashes)
            mt == SubSeq(rest, 1, d - 1)
            dt == SubSeq(rest, d + 1, Len(rest))
        IN  IF ~MonthToken(mt) \/ ~DayToken(dt) THEN NoDate
            ELSE
            LET y  == Number(SubSeq(s, 1, 4))
                m  == Number(mt)
                dd == DayValue(dt)
            IN  IF y < 1 \/ dd > DaysInMonth(y, m) THEN NoDate
                ELSE <<y, m, dd>>

\* (a.month, a.day) < (b.month, b.day), Python's tuple comparison.
MonthDayLess(a, b) == a[2] < b[2] \/ (a[2] = b[2] /\ a[3] < b[3])

\* Variant of calculate_age: the year is taken off on the birthday too.
AgeOffByOne(birth, today) ==
    IF ~MonthDayLess(birth, today)
    THEN today[1] - birth[1] - 1
    ELSE today[1] - birth[1]

\* Employee.calculate_age, with birth_date already parsed.
calculate_age(birth, today) ==
    IF MonthDayLess(today, birth)
    THEN today[1] - birth[1] - 1
    ELSE today[1] - birth[1]


(***************************************************************************)
(* The values the model draws from.  The code draws from lists of ten      *)
(* names, five initials and the years 1950 to 2005; the model draws from   *)
(* sublists of them.                                                       *)
(***************************************************************************)

Employee(full_name, birth_date, gender) ==
    [full_name |-> full_name, birth_date |-> birth_date, gender |-> gender]

James == <<"J", "a", "m", "e", "s">>

Mary == <<"M", "a", "r", "y">>

Smith == <<"S", "m", "i", "t", "h">>

first_names_male == {James}

first_names_female == {Mary}

last_names == {Smith}

middle_names == {<<"A", ".">>}

f_suffixes == {<<"o", "r", "d">>}

\* The five last names of src/main.py:122, whole.
FLastNames ==
    {<<"F", "i", "s", "h", "e", "r">>, <<"F", "o", "r", "d">>,
     <<"F", "l", "e", "t", "c", "h", "e", "r">>,
     <<"F", "r", "a", "n", "k", "l", "i", "n">>,
     <<"F", "e", "r", "g", "u", "s", "o", "n">>}

BirthYears == {1950}

BirthMonths == {12}

BirthDays == {28}

BirthDates ==
    {FormatDate(y, m, d) : y \in BirthYears, m \in BirthMonths, d \in BirthDays}

\* One record of the main loop (src/main.py:91-107).
RandomEmployees ==
    UNION {
      {Employee(ComposeName(l, f, m), b, g) :
          l \in last_names, m \in middle_names, b \in BirthDates,
          f \in (IF g = "Male" THEN first_names_male ELSE first_names_female)}
      : g \in {"Male", "Female"}}

\* Variant of FGender: the second loop draws the gender as the first does.
FGenderAny == {"Male", "Female"}

\* The gender of the records of the second loop.
FGender == {"Male"}

\* One record of the second loop (src/main.py:121-131).
FEmployees ==
    {Employee(ComposeName(<<"F">> \o s, f, m), b, g) :
        s \in f_suffixes, f \in first_names_male, m \in middle_names,
        b \in BirthDates, g \in FGender}

\* The arguments of a mode-2 invocation: any texts.
FordJames == <<"F", "o", "r", "d", " ", "J", "a", "m", "e", "s", " ", "A", ".">>

fordHenry == <<"f", "o", "r", "d", " ", "h", "e", "n", "r", "y", " ", "A", ".">>

GoodDate == <<"1", "9", "5", "0", "-", "1", "2", "-", "2", "8">>

BadDate == <<"1", "9", "8", "0", "-", "1", "3", "-", "4", "5">>

AddArgs == {<<FordJames, GoodDate, "Female">>, <<fordHenry, BadDate, "Male">>}

\* sys.argv[2:] of an invocation, by mode.
ArgsOf(m) ==
    IF m = "2"
    THEN AddArgs \cup {<<>>, <<FordJames>>, <<FordJames, GoodDate>>}
    ELSE {<<>>}

Modes == {"1", "2", "3", "4", "5", "6", "7"}

\* date.today() of a listing: one day for all the rows it prints.
Todays == {<<2026, 5, 14>>, <<2026, 5, 15>>}

\* The elapsed time of a query, in clock ticks.
Durations == {0, 1}

(***************************************************************************)
(* State.                                                                  *)
(***************************************************************************)
VARIABLES
    table,        \* the employees table exists in the database file
    index,        \* idx_gender_lastname exists
    rows,         \* the committed rows, by id
    conn,         \* "none", "open", "closed": the invocation's connection
    pending,      \* rows inserted by the open transaction, not committed
    closes,       \* calls of close() in this invocation
    pc,           \* position of main(); "done" between invocations
    mode,         \* sys.argv[1] ("" when absent)
    args,         \* sys.argv[2:]
    raised,       \* an exception is propagating out of main()
    trace,        \* store calls, commits and prints of this invocation
    count,        \* generate_random_employees: its argument
    i,            \* its loop counter
    employees,    \* its buffer
    f_employees,  \* its second buffer
    generated,    \* every record it has built so far, in order
    batches,      \* the size of each batch_add_employees call it made
    output,       \* the rows get_all_unique_employees printed
    found,        \* the ids the last search selected
    times,        \* the elapsed time each search returned
    rows0,        \* rows at the start of the invocation
    schema0,      \* <<table, index>> at the start of the invocation
    adds,         \* mode-2 inserts so far in the behaviour
    completed     \* a generate_random_employees call has run to its end

db == <<table, index, rows>>

gen == <<count, i, employees, f_employees, generated, batches>>

vars ==
    <<table, index, rows, conn, pending, closes, pc, mode, args, raised, trace,
      count, i, employees, f_employees, generated, batches, output, found,
      times, rows0, schema0, adds, completed>>

Range(s) == {s[k] : k \in 1..Len(s)}

\* The state of an invocation before main() has done anything.
Fresh ==
    /\ pending' = <<>>
    /\ closes' = 0
    /\ count' = 0
    /\ i' = 0
    /\ employees' = <<>>
    /\ f_employees' = <<>>
    /\ generated' = <<>>
    /\ batches' = <<>>
    /\ output' = <<>>
    /\ found' = {}
    /\ times' = <<>>
    /\ rows0' = rows
    /\ schema0' = <<table, index>>

Init ==
    /\ table = FALSE
    /\ index = FALSE
    /\ rows = <<>>
    /\ conn = "none"
    /\ pending = <<>>
    /\ closes = 0
    /\ pc = "done"
    /\ mode = ""
    /\ args = <<>>
    /\ raised = FALSE
    /\ trace = <<>>
    /\ count = 0
    /\ i = 0
    /\ employees = <<>>
    /\ f_employees = <<>>
    /\ generated = <<>>
    /\ batches = <<>>
    /\ output = <<>>
    /\ found = {}
    /\ times = <<>>
    /\ rows0 = <<>>
    /\ schema0 = <<FALSE, FALSE>>
    /\ adds = 0
    /\ completed = FALSE


(***************************************************************************)
(* The store's operations.                                                 *)
(***************************************************************************)

\* What an INSERT of the rows emps followed by a commit can do: ok with all
\* of them committed, or an error after `kept` of them entered the open
\* transaction (kept = Len(emps): the commit itself failed).  Without the
\* table the statement fails at once.
InsertOutcomes(emps) ==
    IF ~table THEN {[ok |-> FALSE, kept |-> 0]}
    ELSE {[ok |-> TRUE, kept |-> Len(emps)]}
         \cup {[ok |-> FALSE, kept |-> k] : k \in 0..Len(emps)}

\* EmployeeDirectory.batch_add_employees(emps) with outcome o.
batch_add_employees(emps, o) ==
    /\ batches' = Append(batches, Len(emps))
    /\ IF o.ok
       THEN /\ rows' = rows \o pending \o emps
            /\ pending' = <<>>
            /\ trace' = trace \o <<"batch_add_employees", "commit">>
            /\ raised' = FALSE
       ELSE /\ rows' = rows
            /\ pending' = pending \o SubSeq(emps, 1, o.kept)
            /\ trace' = Append(trace, "batch_add_employees")
            /\ raised' = TRUE

\* The WHERE clause of search_male_f_lastname, on one row.
SearchMatches(r) == r.gender = "Male" /\ LikeF(r.full_name)

\* The ids search_male_f_lastname selects.
SearchIds == {k \in 1..Len(rows) : SearchMatches(rows[k])}

\* EmployeeDirectory.search_male_f_lastname, taking d clock ticks, after the
\* events tr.
search_male_f_lastname(d, tr) ==
    /\ found' = SearchIds
    /\ times' = Append(times, d)
    /\ trace' = Append(tr, IF index THEN "search indexed" ELSE "search unindexed")

\* Variant of RowsAfterClose: close() commits the open transaction.
RowsAfterCloseCommitting == rows \o pending

\* The rows after conn.close(): the open transaction is rolled back.
RowsAfterClose == rows

\* Variant of IndexAfterOptimize: the CREATE INDEX statement is not run.
IndexNotCreated == index

\* The index after optimize_database succeeded.
IndexAfterOptimize == TRUE

\* Variant of RowsAfterCreate: the table is dropped and created again.
RowsAfterRecreate == <<>>

\* The rows after CREATE TABLE IF NOT EXISTS.
RowsAfterCreate == rows

(***************************************************************************)
(* main().                                                                 *)
(***************************************************************************)

\* len(sys.argv) < 2: the usage text, and nothing else.
NoMode ==
    /\ pc = "done"
    /\ Fresh
    /\ mode' = ""
    /\ args' = <<>>
    /\ conn' = "none"
    /\ raised' = FALSE
    /\ trace' = <<"print usage">>
    /\ pc' = "done"
    /\ UNCHANGED <<db, adds, completed>>

\* What the model lets an invocation begin: the table stays within MaxRows
\* and the mode-2 inserts within MaxAdds.
WithinBounds(m, a) ==
    /\ (m = "2" /\ Len(a) >= 3) => (adds < MaxAdds /\ Len(rows) < MaxRows)
    /\ m = "4" => Len(rows) + FCount <= MaxRows

\* mode = sys.argv[1]; directory = EmployeeDirectory()
Start(m, a) ==
    /\ pc = "done"
    /\ WithinBounds(m, a)
    /\ Fresh
    /\ mode' = m
    /\ args' = a
    /\ conn' = "open"
    /\ raised' = FALSE
    /\ trace' = <<>>
    /\ pc' = "dispatch"
    /\ UNCHANGED <<db, adds, completed>>

\* sqlite3.connect fails: __init__ raises RuntimeError before the try.
ConnectFails(m) ==
    /\ pc = "done"
    /\ Fresh
    /\ mode' = m
    /\ args' = <<>>
    /\ conn' = "none"
    /\ raised' = TRUE
    /\ trace' = <<"RuntimeError">>
    /\ pc' = "done"
    /\ UNCHANGED <<db, adds, completed>>

Dispatch(m) == pc = "dispatch" /\ mode = m

\* An exception leaves the try block.
Raise(event) ==
    /\ raised' = TRUE
    /\ trace' = Append(trace, event)
    /\ pc' = "finally"

\* mode 1: directory.create_table()
ModeOne ==
    /\ Dispatch("1")
    /\ \E ok \in BOOLEAN :
         IF ok
         THEN /\ table' = TRUE
              /\ rows' = RowsAfterCreate
              /\ trace' = trace \o <<"create_table", "commit">>
              /\ pc' = "finally"
              /\ UNCHANGED raised
         ELSE /\ Raise("create_table")
              /\ UNCHANGED <<table, rows>>
    /\ UNCHANGED <<index, conn, pending, closes, mode, args, gen, output, found,
                   times, rows0, schema0, adds, completed>>

\* Variant of ModeTwoUsage: no return, the missing arguments read as empty.
ModeTwoInserting ==
    /\ Dispatch("2")
    /\ Len(args) < 3
    /\ rows' = Append(rows, Employee(<<>>, <<>>, ""))
    /\ trace' = trace \o <<"print usage", "add_employee", "commit">>
    /\ pc' = "finally"
    /\ UNCHANGED <<table, index, conn, pending, closes, mode, args, raised, gen,
                   output, found, times, rows0, schema0, adds, completed>>

\* mode 2 with len(sys.argv) < 5: the usage text and return.
ModeTwoUsage ==
    /\ Dispatch("2")
    /\ Len(args) < 3
    /\ trace' = Append(trace, "print usage")
    /\ pc' = "finally"
    /\ UNCHANGED <<db, conn, pending, closes, mode, args, raised, gen, output,
                   found, times, rows0, schema0, adds, completed>>

\* mode 2: directory.add_employee(sys.argv[2], sys.argv[3], sys.argv[4])
ModeTwoAdd ==
    /\ Dispatch("2")
    /\ Len(args) >= 3
    /\ LET e == Employee(args[1], args[2], args[3])
       IN  \E o \in InsertOutcomes(<<e>>) :
             IF o.ok
             THEN /\ rows' = rows \o pending \o <<e>>
                  /\ pending' = <<>>
                  /\ trace' = trace \o <<"add_employee", "commit">>
                  /\ pc' = "finally"
                  /\ UNCHANGED raised
             ELSE /\ Raise("add_employee")
                  /\ pending' = pending \o SubSeq(<<e>>, 1, o.kept)
                  /\ UNCHANGED rows
    /\ adds' = adds + 1
    /\ UNCHANGED <<table, index, conn, closes, mode, args, gen, output, found,
                   times, rows0, schema0, completed>>


(***************************************************************************)
(* Mode 3: get_all_unique_employees.                                       *)
(***************************************************************************)

\* GROUP BY full_name, birth_date: the groups of the table.
Groups == {<<r.full_name, r.birth_date>> : r \in Range(rows)}

\* The gender column of a group is that of one of its rows.
GendersOf(g) ==
    {r.gender : r \in {q \in Range(rows) : <<q.full_name, q.birth_date>> = g}}

\* Variant of Orderings: no ORDER BY, the groups come in any order.
RECURSIVE Arrangements(_)
Arrangements(G) ==
    IF G = {} THEN {<<>>}
    ELSE UNION {{<<g>> \o t : t \in Arrangements(G \ {g})} : g \in G}

RECURSIVE Orderings(_)
\* ORDER BY full_name: every arrangement of the groups G in which the names
\* never decrease (groups with the same name come in any order).
Orderings(G) ==
    IF G = {} THEN {<<>>}
    ELSE UNION {
           {<<g>> \o t : t \in Orderings(G \ {g})}
           : g \in {h \in G : \A k \in G : TextLeq(h[1], k[1])}}

\* cursor.fetchall() of the listing query.
ListingResults ==
    UNION {
      {[k \in 1..Len(o) |-> Employee(o[k][1], o[k][2], gs[k])] :
          gs \in {f \in [1..Len(o) -> {r.gender : r \in Range(rows)}] :
                    \A k \in 1..Len(o) : f[k] \in GendersOf(o[k])}}
      : o \in Orderings(Groups)}

\* The rows the loop prints before calculate_age raises, if it does: those
\* before the first birth_date that strptime rejects.
Printable(res) ==
    LET bad == {k \in 1..Len(res) : ParseDate(res[k].birth_date) = NoDate}
    IN  IF bad = {} THEN Len(res) ELSE SetMin(bad) - 1

\* mode 3: directory.get_all_unique_employees(), on the day t.
ModeThree(t) ==
    /\ Dispatch("3")
    /\ IF ~table
       THEN /\ Raise("get_all_unique_employees")
            /\ UNCHANGED output
       ELSE \E res \in ListingResults :
              /\ output' =
                   [k \in 1..Printable(res) |->
                      [full_name |-> res[k].full_name,
                       birth_date |-> res[k].birth_date,
                       gender |-> res[k].gender,
                       today |-> t,
                       age |-> calculate_age(ParseDate(res[k].birth_date), t)]]
              /\ raised' = (Printable(res) < Len(res))
              /\ trace' = Append(trace, "get_all_unique_employees")
              /\ pc' = "finally"
    /\ UNCHANGED <<db, conn, pending, closes, mode, args, gen, found, times,
                   rows0, schema0, adds, completed>>

(***************************************************************************)
(* Mode 4: generate_random_employees(count).                               *)
(***************************************************************************)

\* Variant of FlushDue: > for >=.
FlushDueLate(buf) == Len(buf) > BatchSize

\* src/main.py:110: the buffer is flushed when it holds BatchSize records.
FlushDue(buf) == Len(buf) >= BatchSize

\* The call: count is any number within the model's bounds (main() passes
\* none and the default applies).
ModeFour(c) ==
    /\ Dispatch("4")
    /\ Len(rows) + c + FCount <= MaxRows
    /\ count' = c
    /\ i' = 0
    /\ employees' = <<>>
    /\ trace' = Append(trace, "generate_random_employees")
    /\ pc' = "gen_loop"
    /\ UNCHANGED <<db, conn, pending, closes, mode, args, raised, f_employees,
                   generated, batches, output, found, times, rows0, schema0,
                   adds, completed>>

\* One iteration of the main loop (src/main.py:90-112).
GenIteration ==
    /\ pc = "gen_loop"
    /\ i < count
    /\ i' = i + 1
    /\ \E e \in RandomEmployees :
         LET buf == Append(employees, e)
         IN  /\ generated' = Append(generated, e)
             /\ IF FlushDue(buf)
                THEN \E o \in InsertOutcomes(buf) :
                       /\ batch_add_employees(buf, o)
                       /\ employees' = (IF o.ok THEN <<>> ELSE buf)
                       /\ pc' = (IF o.ok THEN "gen_loop" ELSE "finally")
                ELSE /\ employees' = buf
                     /\ UNCHANGED <<rows, pending, trace, raised, batches, pc>>
    /\ UNCHANGED <<table, index, conn, closes, mode, args, count, f_employees,
                   output, found, times, rows0, schema0, adds, completed>>

\* After the loop: the remaining records (src/main.py:115-116).
GenRemainder ==
    /\ pc = "gen_loop"
    /\ i = count
    /\ IF employees # <<>>
       THEN \E o \in InsertOutcomes(employees) :
              /\ batch_add_employees(employees, o)
              /\ pc' = (IF o.ok THEN "gen_f" ELSE "finally")
       ELSE /\ pc' = "gen_f"
            /\ UNCHANGED <<rows, pending, trace, raised, batches>>
    /\ UNCHANGED <<table, index, conn, closes, mode, args, count, i, employees,
                   f_employees, generated, output, found, times, rows0, schema0,
                   adds, completed>>

\* One iteration of the second loop (src/main.py:120-131).
GenFIteration ==
    /\ pc = "gen_f"
    /\ Len(f_employees) < FCount
    /\ \E e \in FEmployees :
         /\ f_employees' = Append(f_employees, e)
         /\ generated' = Append(generated, e)
    /\ UNCHANGED <<db, conn, pending, closes, pc, mode, args, raised, trace,
                   count, i, employees, batches, output, found, times, rows0,
                   schema0, adds, completed>>

\* The last batch (src/main.py:133-134).
GenFFlush ==
    /\ pc = "gen_f"
    /\ Len(f_employees) = FCount
    /\ \E o \in InsertOutcomes(f_employees) :
         /\ batch_add_employees(f_employees, o)
         /\ completed' = (completed \/ o.ok)
    /\ pc' = "finally"
    /\ UNCHANGED <<table, index, conn, closes, mode, args, count, i, employees,
                   f_employees, generated, output, found, times, rows0, schema0,
                   adds>>

(***************************************************************************)
(* Modes 5 and 6, the unknown mode, and the finally clause.                *)
(***************************************************************************)

\* mode 5: directory.search_male_f_lastname()
ModeFive ==
    /\ Dispatch("5")
    /\ IF ~table
       THEN /\ Raise("search_male_f_lastname")
            /\ UNCHANGED <<found, times>>
       ELSE /\ \E d \in Durations : search_male_f_lastname(d, trace)
            /\ pc' = "finally"
            /\ UNCHANGED raised
    /\ UNCHANGED <<db, conn, pending, closes, mode, args, gen, output, rows0,
                   schema0, adds, completed>>

\* mode 6: directory.optimize_database()
ModeSix ==
    /\ Dispatch("6")
    /\ \E ok \in {table} \cup {FALSE} :
         IF ok
         THEN /\ index' = IndexAfterOptimize
              /\ trace' = trace \o <<"optimize_database", "commit">>
              /\ pc' = "before"
              /\ UNCHANGED raised
         ELSE /\ Raise("optimize_database")
              /\ UNCHANGED index
    /\ UNCHANGED <<table, rows, conn, pending, closes, mode, args, gen, output,
                   found, times, rows0, schema0, adds, completed>>

\* mode 6: print("Before optimization:") and the first search;
\*         print("After optimization:") and the second.
ModeSixSearch(label) ==
    /\ pc = label
    /\ \E d \in Durations :
         search_male_f_lastname(d, Append(trace, "print " \o label))
    /\ pc' = (IF label = "before" THEN "after" ELSE "report")
    /\ UNCHANGED <<db, conn, pending, closes, mode, args, raised, gen, output,
                   rows0, schema0, adds, completed>>

\* mode 6: the last print divides before_time by after_time.
ModeSixReport ==
    /\ pc = "report"
    /\ IF times[2] = 0
       THEN Raise("ZeroDivisionError")
       ELSE /\ trace' = Append(trace, "print improvement")
            /\ pc' = "finally"
            /\ UNCHANGED raised
    /\ UNCHANGED <<db, conn, pending, closes, mode, args, gen, output, found,
                   times, rows0, schema0, adds, completed>>

\* any other mode: print(f"Unknown mode: {mode}")
UnknownMode ==
    /\ pc = "dispatch"
    /\ mode \notin {"1", "2", "3", "4", "5", "6"}
    /\ trace' = Append(trace, "print unknown mode")
    /\ pc' = "finally"
    /\ UNCHANGED <<db, conn, pending, closes, mode, args, raised, gen, output,
                   found, times, rows0, schema0, adds, completed>>

\* Variant of Finally: close() follows the try block instead of being its
\* finally clause, and is skipped when the block raised.
CloseUnlessRaised ==
    /\ pc = "finally"
    /\ conn' = (IF raised THEN conn ELSE "closed")
    /\ closes' = (IF raised THEN closes ELSE closes + 1)
    /\ rows' = RowsAfterClose
    /\ pending' = <<>>
    /\ trace' = (IF raised THEN trace ELSE Append(trace, "close"))
    /\ pc' = "done"
    /\ UNCHANGED <<table, index, mode, args, raised, gen, output, found, times,
                   rows0, schema0, adds, completed>>

\* finally: directory.close(); main() returns or the exception goes on.
Finally ==
    /\ pc = "finally"
    /\ conn' = "closed"
    /\ closes' = closes + 1
    /\ rows' = RowsAfterClose
    /\ pending' = <<>>
    /\ trace' = Append(trace, "close")
    /\ pc' = "done"
    /\ UNCHANGED <<table, index, mode, args, raised, gen, output, found, times,
                   rows0, schema0, adds, completed>>

Next ==
    \/ NoMode
    \/ \E m \in Modes : \E a \in ArgsOf(m) : Start(m, a)
    \/ \E m \in Modes : ConnectFails(m)
    \/ ModeOne
    \/ ModeTwoUsage
    \/ ModeTwoAdd
    \/ \E t \in Todays : ModeThree(t)
    \/ \E c \in 0..MaxCount : ModeFour(c)
    \/ GenIteration
    \/ GenRemainder
    \/ GenFIteration
    \/ GenFFlush
    \/ ModeFive
    \/ ModeSix
    \/ ModeSixSearch("before")
    \/ ModeSixSearch("after")
    \/ ModeSixReport
    \/ UnknownMode
    \/ Finally

Spec == Init /\ [][Next]_vars


(***************************************************************************)
(* A second specification, for calculate_age: the table holds one row      *)
(* whose birth_date is any date of AgeBirths as the program formats it,    *)
(* and the program lists it on any day of AgeTodays.                       *)
(***************************************************************************)

AgeBirths ==
    {<<y, m, d>> : y \in {1950, 2004, 2005}, m \in 1..12, d \in {1, 14, 15, 16, 28}}
    \cup {<<2004, 2, 29>>, <<1950, 12, 31>>}

AgeTodays ==
    {<<2005, 5, 14>>, <<2005, 5, 15>>, <<2005, 5, 16>>, <<2026, 1, 1>>,
     <<2026, 2, 28>>, <<2026, 3, 1>>, <<2026, 11, 30>>, <<2026, 12, 31>>}

InitAge ==
    /\ table = TRUE
    /\ index = FALSE
    /\ \E b \in AgeBirths :
         rows = <<Employee(ComposeName(Smith, James, <<"A", ".">>),
                           FormatDate(b[1], b[2], b[3]), "Male")>>
    /\ conn = "none"
    /\ pending = <<>>
    /\ closes = 0
    /\ pc = "done"
    /\ mode = ""
    /\ args = <<>>
    /\ raised = FALSE
    /\ trace = <<>>
    /\ count = 0
    /\ i = 0
    /\ employees = <<>>
    /\ f_employees = <<>>
    /\ generated = <<>>
    /\ batches = <<>>
    /\ output = <<>>
    /\ found = {}
    /\ times = <<>>
    /\ rows0 = rows
    /\ schema0 = <<TRUE, FALSE>>
    /\ adds = 0
    /\ completed = FALSE

NextAge ==
    \/ Start("3", <<>>)
    \/ \E t \in AgeTodays : ModeThree(t)
    \/ Finally

SpecAge == InitAge /\ [][NextAge]_vars

(***************************************************************************)
(* Properties.                                                             *)
(***************************************************************************)

IsPrefix(s, t) == Len(s) <= Len(t) /\ SubSeq(t, 1, Len(s)) = s

RECURSIVE Sum(_)
Sum(s) == IF s = <<>> THEN 0 ELSE s[1] + Sum(Tail(s))

\* C1: whenever main() built a store, close() has been called on it exactly
\* once when main() is left, whatever the mode, the arguments and the outcome
\* of the operation, and never before the operation is over.
CloseExactlyOnce ==
    /\ closes <= 1
    /\ (pc # "done" => (conn = "open" /\ closes = 0))
    /\ ((pc = "done" /\ conn # "none") => (conn = "closed" /\ closes = 1))

\* C1's case: an operation raised, and the store was closed once.
CloseAfterRaiseReached ==
    pc = "done" /\ raised /\ conn = "closed" /\ closes = 1

\* The pairs of the printed rows.
PrintedPairs == {<<o.full_name, o.birth_date>> : o \in Range(output)}

\* The printed rows have different pairs and never-decreasing names.
PrintedInOrder ==
    /\ Cardinality(PrintedPairs) = Len(output)
    /\ \A a, b \in 1..Len(output) :
         a < b => TextLeq(output[a].full_name, output[b].full_name)

AllDatesParse == \A r \in Range(rows) : ParseDate(r.birth_date) # NoDate

GenerateAddsCountPlusF ==
    (pc = "done" /\ mode = "4" /\ conn = "closed" /\ ~raised) =>
        /\ Len(rows) = Len(rows0) + count + FCount
        /\ rows = rows0 \o generated
        /\ batches # <<>>
        /\ batches[Len(batches)] = FCount
        /\ Sum(batches) = count + FCount
        /\ \A k \in (Len(rows) - FCount + 1)..Len(rows) :
             /\ rows[k].gender = "Male"
             /\ LastNameToken(rows[k].full_name) \in FLastNames

\* C3's case: a call with more than a batch of records has ended, on a table
\* that held rows before.
GenerateEndedReached ==
    /\ pc = "done" /\ mode = "4" /\ ~raised
    /\ count > BatchSize
    /\ rows0 # <<>>
    /\ Len(rows) = Len(rows0) + count + FCount


\* a <= b for dates <<year, month, day>>.
DateLeq(a, b) ==
    \/ a[1] < b[1]
    \/ a[1] = b[1] /\ a[2] < b[2]
    \/ a[1] = b[1] /\ a[2] = b[2] /\ a[3] <= b[3]

\* The whole years from birth to today: the birthdays (the same month and
\* day in a later year) that are not after today.
WholeYears(birth, today) ==
    Cardinality({y \in (birth[1] + 1)..today[1] :
                   DateLeq(<<y, birth[2], birth[3]>>, today)})

\* The calendar day before the date a.
DayBefore(a) ==
    IF a[3] > 1 THEN <<a[1], a[2], a[3] - 1>>
    ELSE IF a[2] > 1 THEN <<a[1], a[2] - 1, DaysInMonth(a[1], a[2] - 1)>>
    ELSE <<a[1] - 1, 12, 31>>

\* C4: for a birth date that parses and a today on or after it, the age that
\* is printed is the number of whole years from the one to the other, it is
\* not negative, and on the day before this year's birthday the age is one
\* less than on the birthday.
AgeIsWholeYears ==
    \A o \in Range(output) :
        LET b  == ParseDate(o.birth_date)
            bd == <<o.today[1], b[2], b[3]>>
        IN  /\ b # NoDate
            /\ DateLeq(b, o.today) =>
                 /\ o.age = WholeYears(b, o.today)
                 /\ o.age >= 0
            /\ o.today[1] > b[1] =>
                 calculate_age(b, DayBefore(bd)) = calculate_age(b, bd) - 1

\* C4's case: a listing on the day before the birthday printed the age of
\* the year before.
AgeDayBeforeBirthdayReached ==
    \E o \in Range(output) :
        LET b == ParseDate(o.birth_date)
        IN  /\ o.today = DayBefore(<<o.today[1], b[2], b[3]>>)
            /\ o.today[1] > b[1]
            /\ o.age = o.today[1] - b[1] - 1

\* C5: mode 2 with fewer than three arguments prints the usage text and does
\* nothing to the store: no insert, no commit, the rows and the schema are
\* those of the start of the invocation.
ShortModeTwoDoesNothing ==
    (mode = "2" /\ Len(args) < 3 /\ conn # "none") =>
        /\ rows = rows0
        /\ <<table, index>> = schema0
        /\ pending = <<>>
        /\ \A k \in 1..Len(trace) : trace[k] \in {"print usage", "close"}
        /\ pc = "done" => trace = <<"print usage", "close">>

\* C5's case: such an invocation, with two arguments, has ended on a table
\* that holds rows.
ShortModeTwoReached ==
    /\ pc = "done" /\ mode = "2" /\ Len(args) = 2
    /\ rows # <<>>
    /\ trace = <<"print usage", "close">>

\* What a mode-6 invocation does when nothing fails.
ModeSixTrace ==
    <<"optimize_database", "commit", "print before", "search indexed",
      "print after", "search indexed", "print improvement", "close">>

\* C6: in a mode-6 invocation optimize_database comes first, then the search
\* labelled 'before', then the search labelled 'after'; the index exists
\* during both and no search runs before it exists.
ModeSixOrder ==
    (mode = "6" /\ conn # "none") =>
        /\ \A k \in 1..Len(trace) :
             trace[k] \in {"search indexed", "search unindexed"} =>
                /\ trace[k] = "search indexed"
                /\ index
                /\ k \in {4, 6}
                /\ SubSeq(trace, 1, k) = SubSeq(ModeSixTrace, 1, k)
        /\ (pc = "done" /\ ~raised) => trace = ModeSixTrace
        /\ Len(times) = Cardinality({k \in 1..Len(trace) : trace[k] = "search indexed"})

\* C6's case: a mode-6 invocation ran both searches and ended.
ModeSixEndedReached ==
    pc = "done" /\ mode = "6" /\ ~raised /\ Len(times) = 2 /\ rows # <<>>

\* C7 as stated: the search selects exactly the rows with gender 'Male' and
\* a full_name that begins with 'F', and at least FCount rows once a
\* generate_random_employees call has run to its end.
SearchSelectsNamesWithF ==
    (mode \in {"5", "6"} /\ times # <<>>) =>
        /\ found = {k \in 1..Len(rows) :
                      /\ rows[k].gender = "Male"
                      /\ Len(rows[k].full_name) >= 1
                      /\ rows[k].full_name[1] = "F"}
        /\ completed => Cardinality(found) >= FCount

\* The second half of C7 alone, which the code satisfies.
SearchFindsGeneratedRows ==
    (mode \in {"5", "6"} /\ times # <<>> /\ completed) =>
        Cardinality(found) >= FCount

\* C8: rows are only ever added: each step leaves the rows it found in
\* place, and only mode 2 with three arguments and mode 4 add any.
RowsOnlyAdded ==
    [][/\ IsPrefix(rows, rows')
       /\ Len(rows') > Len(rows) =>
            (mode = "4" \/ (mode = "2" /\ Len(args) >= 3))]_vars

\* C8's case: a mode-1 invocation ended on a table that held rows, and they
\* are all there.
CreateOverRowsReached ==
    pc = "done" /\ mode = "1" /\ ~raised /\ rows # <<>> /\ rows = rows0

\* The batch sizes of the main loop after n records: all of BatchSize.
FullBatches(n) == [k \in 1..(n \div BatchSize) |-> BatchSize]

\* C9: at the end of every iteration of the main loop the buffer holds fewer
\* than BatchSize records; the loop makes count \div BatchSize batches of
\* BatchSize records, then one of count % BatchSize records if that is not
\* zero; every record built is in the table or in the buffer, once.
BufferBelowBatchSize ==
    /\ pc = "gen_loop" =>
         /\ Len(employees) <= BatchSize - 1
         /\ Len(employees) = i % BatchSize
         /\ batches = FullBatches(i)
         /\ rows \o employees = rows0 \o generated
    /\ pc = "gen_f" =>
         /\ batches = FullBatches(count) \o
                (IF count % BatchSize # 0 THEN <<count % BatchSize>> ELSE <<>>)
         /\ rows = rows0 \o SubSeq(generated, 1, count)

\* C9's case: the loop made two full batches and one of the remainder.
RemainderBatchReached ==
    /\ pc = "gen_f"
    /\ Len(batches) >= 3
    /\ count % BatchSize # 0

\* C10: when the k-th batch insert fails, the invocation ends with the rows
\* of the k-1 batches before it in the table and none of the failing batch
\* or of a later one; the error goes on, no batch is tried again, and the
\* store is closed.
FailedBatchIsLost ==
    (pc = "done" /\ mode = "4" /\ conn = "closed" /\ raised) =>
        /\ batches # <<>>
        /\ rows = rows0 \o
             SubSeq(generated, 1, Sum(SubSeq(batches, 1, Len(batches) - 1)))
        /\ Len(generated) >= Sum(batches)
        /\ pending = <<>>
        /\ closes = 1
        /\ trace[Len(trace)] = "close"
        /\ trace[Len(trace) - 1] = "batch_add_employees"

\* C10's case: the third batch failed on an existing table, and the two
\* batches before it are in the table.
ThirdBatchFailedReached ==
    /\ pc = "done" /\ mode = "4" /\ raised /\ table
    /\ Len(batches) = 3
    /\ Len(rows) = Len(rows0) + 2 * BatchSize

====
